---- MODULE Spec2Model ----
(***************************************************************************)
(* Model of tensorflow/compiler/xla/python/local_client.cc:                *)
(*   - PyLocalExecutable::Execute / ExecutePerReplica (replica dispatch,   *)
(*     partial-failure protocol, deadlock escape),                         *)
(*   - PyLocalBuffer (Release, ToPython, DestructureTuple),                *)
(*   - PyLocalBuffer::FromPythonValues / TransferHostToDeviceAsync.        *)
(***************************************************************************)
EXTENDS Integers, Sequences, FiniteSets, TLC

\* ------------------------------------------------------------------ bounds
\* Largest client->device_count() explored with one caller (Spec).
MaxDevices == 3

\* Largest client->device_count() explored with two concurrent callers
\* (SpecConc).
MaxDevicesConc == 2

\* Largest number of elements of the outermost tuple of a buffer's shape.
MaxTupleWidth == 2

\* Largest number of buffer operations in one behaviour of SpecBuf.
MaxBufferOps == 3

\* Largest number of (tree, device ordinal) pairs of one batch transfer.
MaxBatch == 2

\* Largest number of argument layouts passed to one Compile.
MaxCompileArgs == 2

\* Largest number of argument buffers passed for one replica.
MaxHandles == 1

\* Threads of the host program that may call into one client concurrently.
CallerIds == {"A", "B"}

\* ------------------------------------------------------------ state (exec)
VARIABLES
  device_count,          \* client_->device_count()
  callers,               \* the host threads that call Execute/ExecutePerReplica
  pc,                    \* per caller: position inside its call
  call,                  \* per caller: operation, executable and argument count
  sched,                 \* per caller: loop variable 'replica' of the Schedule loop
  running,               \* per caller: int running GUARDED_BY(mu)
  failed,                \* per caller: int failed GUARDED_BY(mu)
  first_failure_status,  \* per caller: Status first_failure_status GUARDED_BY(mu)
  results,               \* per caller: std::vector<StatusOr<ScopedShapedBuffer>>
  ret,                   \* per caller: what the call returned
  started,               \* per caller: replicas scheduled or run by the current call
  queue,                 \* per worker thread: closures scheduled, not yet started
  cur,                   \* per worker thread: closure being executed
  terminated,            \* LOG(FATAL) has killed the process
  mu                     \* per caller: the thread that holds absl::Mutex mu

execVars == <<device_count, callers, pc, call, sched, running, failed,
              first_failure_status, results, ret, started, queue, cur,
              terminated, mu>>

\* ---------------------------------------------------------- state (buffers)
VARIABLES
  bufs,        \* the PyLocalBuffer objects: shaped_buffer_ (optional) per object
  allocated,   \* device memory regions the allocator has handed out, not freed
  handed_out,  \* regions whose ownership left a PyLocalBuffer through Release()
  called,      \* per buffer: the operations already invoked on it
  last,        \* the most recent buffer operation and its outcome
  ops_done     \* number of buffer operations performed

bufVars == <<bufs, allocated, handed_out, called, last, ops_done>>

\* -------------------------------------------------- state (batch transfer)
VARIABLES
  args,      \* arguments of FromPythonValues: per pair its tree and device
  mpc,       \* position of the calling thread inside FromPythonValues
  bi,        \* loop variable of the BlockHostUntilDone loop
  tpc,       \* per pair: position of transfer_h2d(i)
  leaf,      \* per pair: leaves already handed to the stream
  tbuffer,   \* per pair: transfers[i].buffer (StatusOr<PyLocalBuffer>)
  mem,       \* per pair: the device memory of its ScopedShapedBuffer
  buffer,    \* per pair: the ScopedShapedBuffer 'buffer' and what it holds
  pending,   \* per pair: writes enqueued on transfers[i].stream, not yet done
  enq,       \* per pair: writes ever enqueued on transfers[i].stream
  counter,   \* absl::BlockingCounter counter(num_arguments - 1)
  xret,      \* what FromPythonValues returned
  host       \* per returned buffer: what ToPython last returned for it

xferVars == <<args, mpc, bi, tpc, leaf, tbuffer, mem, buffer, pending, enq,
              counter, xret, host>>

\* ---------------------------------------------------------- state (compile)
VARIABLES
  compile_call,  \* the arguments of the last Compile and what its services do
  compile_ret    \* what that Compile returned

compVars == <<compile_call, compile_ret>>

vars == <<execVars, bufVars, xferVars, compVars>>

\* ---------------------------------------------------------------- values
None == [caller |-> "none", replica |-> -1, phase |-> "none"]
NoCall == [op |-> "none", n |-> 0, assign |-> <<>>, argLen |-> 0,
           handles |-> <<>>, pre |-> <<>>]
NoRet == [kind |-> "none", err |-> -1, note |-> -1, buffers |-> <<>>]

\* A default-constructed StatusOr holds a non-OK status (err = -1: Unknown).
\* An OK StatusOr of replica r holds the buffer produced by r's run; a failed
\* one holds the execution failure of r's run.
Unset == [ok |-> FALSE, err |-> -1, buf |-> -1]
RunOk(r) == [ok |-> TRUE, err |-> -1, buf |-> r]
RunFailed(r) == [ok |-> FALSE, err |-> r, buf |-> -1]
OkStatus == -1

\* absl::Mutex mu held by nobody; a holder is a worker thread's index, or
\* CallerThread for the thread that called ExecutePerReplica.
MuFree == -2
CallerThread == -1

\* Mutant: the lock object is constructed without taking the mutex.
MutexLock_NotTaken(holder, who) == holder

\* absl::MutexLock lock(&mu): once constructed, 'who' holds the mutex.
MutexLock(holder, who) == who

Devices == 0 .. (device_count - 1)
Threads == 0 .. (device_count - 1)
ThreadIds == 0 .. (MaxDevices - 1)

\* Executables a caller may hold: any replica count a DeviceAssignment can
\* have here, mapped onto the client's device ordinals in any way.
Assignments(n) == [1..n -> Devices]

\* ------------------------------------------------------- pure helpers
\* device_assignment_(replica, 0)
DeviceOf(e, replica) == e.assign[replica + 1]

\* client_->execute_threads().at(replica)
ThreadOf(replica) == replica

\* Mutant: a closure stores its result in the first slot not yet written.
ResultSlot_NextFree(res, replica) ==
  CHOOSE r \in DOMAIN res :
    res[r].err = -1 /\ ~res[r].ok /\
    \A q \in DOMAIN res : (res[q].err = -1 /\ ~res[q].ok) => r <= q

\* results[replica] = execute(replica): the slot of 'results' that the
\* closure of 'replica' assigns.
ResultSlot(res, replica) == replica

\* Mutant: the replica-count check only rejects too few argument lists.
ValidateArgs_OnlyTooFew(argLen, n, num_devices) ==
  IF argLen < n THEN "InvalidArgument"
  ELSE IF argLen > num_devices THEN "InvalidArgument"
  ELSE "ok"

\* The two argument checks at the top of ExecutePerReplica.
ValidateArgs(argLen, n, num_devices) ==
  IF argLen # n THEN "InvalidArgument"
  ELSE IF argLen > num_devices THEN "InvalidArgument"
  ELSE "ok"

\* Mutant: the current-thread path is also taken for two replicas.
UsesFastPath_UpToTwo(n) == n <= 2

\* if (num_replicas() == 1): run on the current thread.
UsesFastPath(n) == n = 1

\* Mutant: the first wait ends as soon as any replica is done.
DoneRunningOrFailed_AnyDone(c) == running[c] < call[c].n \/ failed[c] > 0

\* auto done_running_or_failed = [&]() { return running == 0 || failed > 0; }
DoneRunningOrFailed(c) == running[c] = 0 \/ failed[c] > 0

\* Mutant: the bounded wait also ends as soon as a replica has failed.
DoneRunning_OrFailed(c) == running[c] = 0 \/ failed[c] > 0

\* Mutant: the result of AwaitWithTimeout is taken the wrong way round.
DoneRunning_Negated(c) == running[c] # 0

\* auto done_running = [&]() { return running == 0; }
DoneRunning(c) == running[c] = 0

\* The wrapping loop at the end of ExecutePerReplica: the first replica, in
\* index order, whose StatusOr is not OK ends the loop with its status,
\* annotated with the loop index; otherwise every result is wrapped in order.
RECURSIVE WrapFrom(_, _, _, _)
WrapFrom(res, replica, n, wrapped) ==
  IF replica >= n
    THEN [kind |-> "ok", err |-> -1, note |-> -1, buffers |-> wrapped]
    ELSE IF ~res[replica].ok
      THEN [kind |-> "error", err |-> res[replica].err, note |-> replica,
            buffers |-> <<>>]
      ELSE WrapFrom(res, replica + 1, n, Append(wrapped, res[replica].buf))

WrapResults(res, n) == WrapFrom(res, 0, n, <<>>)

\* Mutant: the error returned is the first failure in completion order.
ReturnedStatus_FirstToFail(c) ==
  IF failed[c] > 0
    THEN [kind |-> "error", err |-> first_failure_status[c],
          note |-> first_failure_status[c], buffers |-> <<>>]
    ELSE WrapResults(results[c], call[c].n)

\* What ExecutePerReplica returns once the replicas are drained.
ReturnedStatus(c) == WrapResults(results[c], call[c].n)

\* Mutant: Execute only rejects an executable without replicas.
ExecuteCheck_AtLeastOne(n) == IF n < 1 THEN "InvalidArgument" ELSE "ok"

\* The check at the top of Execute: if (num_replicas() != 1).
ExecuteCheck(n) == IF n # 1 THEN "InvalidArgument" ELSE "ok"

\* Mutant: Execute reports a failed run without the run's status.
ExecuteReturn_LosesStatus(status_or) ==
  IF ~status_or.ok
    THEN [kind |-> "error", err |-> -1, note |-> -1, buffers |-> <<>>]
    ELSE [kind |-> "ok", err |-> -1, note |-> -1, buffers |-> <<status_or.buf>>]

\* Execute's return: the StatusOr's status as it is, or the wrapped buffer.
ExecuteReturn(status_or) ==
  IF ~status_or.ok
    THEN [kind |-> "error", err |-> status_or.err, note |-> -1, buffers |-> <<>>]
    ELSE [kind |-> "ok", err |-> -1, note |-> -1, buffers |-> <<status_or.buf>>]

\* ------------------------------------------------------------- shapes
\* A Shape is an array or a tuple of Shapes.
Array == [kind |-> "array", elems |-> <<>>]
Tuple(es) == [kind |-> "tuple", elems |-> es]

\* Shape::IsTuple, ShapeUtil::TupleElementCount, ShapeUtil::GetSubshape(s, {i})
IsTuple(s) == s.kind = "tuple"
TupleElementCount(s) == Len(s.elems)
GetSubshape(s, i) == s.elems[i + 1]

SeqsUpTo(S, n) == UNION {[1..k -> S] : k \in 0..n}

\* The shapes explored: tuples of up to MaxTupleWidth elements, each element
\* an array or a tuple of up to two arrays.
ElementShapes == {Array} \cup {Tuple(es) : es \in SeqsUpTo({Array}, 2)}
Shapes == {Array} \cup {Tuple(es) : es \in SeqsUpTo(ElementShapes, MaxTupleWidth)}

\* The ShapeIndex values of a shape, the root {} included (the order of
\* ShapeUtil::ForEachSubshape does not matter to what is modelled here).
RECURSIVE Indices(_)
Indices(s) ==
  {<<>>} \cup UNION {{<<i>> \o idx : idx \in Indices(GetSubshape(s, i))} :
                       i \in 0..(TupleElementCount(s) - 1)}

\* se::DeviceMemoryBase(): the null region.
Null == <<-1>>

\* ------------------------------------------------------------ buffers
\* shaped_buffer_ of a PyLocalBuffer: present (engaged optional) with the
\* ShapeTree<DeviceMemoryBase> of its ScopedShapedBuffer, or absl::nullopt.
BufferOps == {"ToPython", "DestructureTuple", "Release"}
NoOp == [buf |-> <<-1>>, op |-> "none", outcome |-> "none", repeat |-> FALSE,
         made |-> {},
         pre |-> [present |-> FALSE, shape |-> Array, mem |-> <<>>]]

\* The non-null regions of a ShapeTree.
RegionsOf(tree) == {tree[idx] : idx \in DOMAIN tree} \ {Null}

\* The regions a buffer object owns.
Owned(b) == IF bufs[b].present THEN RegionsOf(bufs[b].mem) ELSE {}

\* Mutant: the optional is moved from but never reset.
Released_StillEngaged(buf) == buf

\* Release(): shaped_buffer_ = absl::nullopt after its value was moved out.
Released(buf) ==
  [present |-> FALSE, shape |-> buf.shape,
   mem |-> [idx \in DOMAIN buf.mem |-> Null]]

\* Mutant: the argument is taken out of its handle with Release().
ArgumentHandle_Released(buf) == Released(buf)

\* handle->shaped_buffer() is a const member returning a pointer to const:
\* what the handle is after an execution has taken its argument from it.
ArgumentHandle(buf) == buf

\* for (auto& handle : argument_handles) {
\*   argument_buffers.push_back(handle->shaped_buffer()); }
\* and executable_->Run(argument_buffers, options), which takes pointers to
\* const ShapedBuffers: the buffer objects after the loop over 'hs'.
PushArguments(bs, hs) ==
  [b \in DOMAIN bs |->
     IF \E k \in 1..Len(hs) : hs[k] = b THEN ArgumentHandle(bs[b]) ELSE bs[b]]

\* The buffer objects that hold a ScopedShapedBuffer.
IntactBufs == {b \in DOMAIN bufs : bufs[b].present}

\* The argument lists a caller passes for one replica: intact buffers.
ArgLists == UNION {[1..k -> IntactBufs] : k \in 0..MaxHandles}

\* The buffer objects named by the argument lists 'hss'.
HandlesOf(hss) ==
  UNION {{hss[i][k] : k \in 1..Len(hss[i])} : i \in 1..Len(hss)}

\* The buffer objects named by 'hss' as they are when the call is made.
BeforeCall(hss) == [b \in HandlesOf(hss) |-> bufs[b]]

\* Mutant: the regions moved into a child are not cleared in the parent.
MoveElement_NoClear(tree, i, subshape) ==
  [child |-> [idx \in Indices(subshape) |-> tree[<<i>> \o idx]],
   tree |-> tree]

\* One iteration of the loop of DestructureTuple: every region of element i,
\* at index {i} + index, is set in the child at 'index' and replaced by the
\* null region in the parent's tree.
MoveElement(tree, i, subshape) ==
  [child |-> [idx \in Indices(subshape) |-> tree[<<i>> \o idx]],
   tree |-> [idx \in DOMAIN tree |->
               IF \E sub \in Indices(subshape) : idx = <<i>> \o sub
                 THEN Null ELSE tree[idx]]]

\* The whole loop: the children in element order, and what is left in
\* tuple_buffer when the function returns.
RECURSIVE DestructureFrom(_, _, _, _)
DestructureFrom(tuple_shape, tree, i, done) ==
  IF i >= TupleElementCount(tuple_shape)
    THEN [children |-> done, rest |-> tree]
    ELSE LET m == MoveElement(tree, i, GetSubshape(tuple_shape, i))
         IN DestructureFrom(tuple_shape, m.tree, i + 1, Append(done, m.child))

\* Mutant: the shape is not checked before the buffer is taken apart.
DestructureCheck_NoShapeCheck(buf) ==
  IF ~buf.present THEN "bad_optional_access" ELSE "ok"

\* The head of DestructureTuple: shape() reads shaped_buffer_.value(), which
\* throws on an empty optional; a shape that is no tuple is InvalidArgument.
DestructureCheck(buf) ==
  IF ~buf.present THEN "bad_optional_access"
  ELSE IF ~IsTuple(buf.shape) THEN "InvalidArgument"
  ELSE "ok"

\* ~ScopedShapedBuffer: every non-null region still in the tree is
\* deallocated.
ScopedDestroy(tree) == RegionsOf(tree)

\* What a read through an empty optional with operator* can do: the build
\* may trap, or carry on with whatever the storage holds.
UndefinedOutcomes == {"crash", "returns"}

\* ------------------------------------------------------ batch transfer
\* Number of array leaves of a shape (ShapeUtil::GetLeafShapes).
RECURSIVE LeafCount(_)
LeafCount(s) ==
  IF ~IsTuple(s) THEN 1
  ELSE IF TupleElementCount(s) = 0 THEN 0
  ELSE LET rest == Tuple(Tail(s.elems))
       IN LeafCount(Head(s.elems)) + LeafCount(rest)

\* The trees transferred: an array, or a tuple of two arrays; a tree holds
\* one leaf per array leaf of its shape.
TreeShapes == {Array, Tuple(<<Array, Array>>)}

NoXRet == [kind |-> "none", stage |-> "none", at |-> -1, buffers |-> <<>>]

\* A ScopedShapedBuffer that was never allocated.
NoBuffer == [shape |-> Array, device |-> -1, data |-> <<>>]

\* tree.leaves of pair i: one host value per array leaf of the shape, in
\* depth-first order; the k-th host value of pair i is named <<i, k>>.
LeavesOf(i, shape) == [k \in 1..LeafCount(shape) |-> <<i, k - 1>>]

\* ShapeUtil::GetLeafShapes: the ShapeIndex of every array leaf, depth first.
RECURSIVE GetLeafShapes(_)
RECURSIVE LeafShapesFrom(_, _)
GetLeafShapes(s) == IF ~IsTuple(s) THEN << <<>> >> ELSE LeafShapesFrom(s, 0)

LeafShapesFrom(s, i) ==
  IF i >= TupleElementCount(s) THEN <<>>
  ELSE LET sub == GetLeafShapes(GetSubshape(s, i))
       IN [k \in 1..Len(sub) |-> <<i>> \o sub[k]] \o LeafShapesFrom(s, i + 1)

\* Mutant: the iterator over the leaves is never advanced.
LeafValue_NoAdvance(leaves, k) == leaves[1]

\* auto it = tree.leaves.begin(); ... ++it: *it in iteration k of the loop
\* over the leaf shapes.
LeafValue(leaves, k) == leaves[k + 1]

\* What ToPython last returned for a buffer: nothing yet.
NoHostValue == [kind |-> "none", shape |-> Array, leaves |-> <<>>]

\* Device memory that was never written.
Uninitialized == <<-1, -1>>

\* client->ShapedBufferToLiteral: a literal of the buffer's shape whose
\* array at each leaf index is read from the buffer's region at that index.
ShapedBufferToLiteral(b) ==
  [shape |-> b.shape,
   data |-> [idx \in {GetLeafShapes(b.shape)[k] :
                        k \in 1..Len(GetLeafShapes(b.shape))} |->
               IF idx \in DOMAIN b.data THEN b.data[idx] ELSE Uninitialized]]

\* LiteralToPython: the host value of a literal, its arrays in depth-first
\* order.
LiteralToPython(literal) ==
  [kind |-> "ok", shape |-> literal.shape,
   leaves |-> [k \in 1..Len(GetLeafShapes(literal.shape)) |->
                 literal.data[GetLeafShapes(literal.shape)[k]]]]

\* TransferLiteralToDeviceAsync(stream, *it, leaf): the host value is copied
\* into the region of 'buffer' at the leaf's index.
WriteLeaf(data, index, value) ==
  [idx \in DOMAIN data \cup {index} |->
     IF idx = index THEN value ELSE data[idx]]

\* Mutant: the buffer is allocated before the layout is chosen.
TransferSteps_AllocFirst == <<"alloc", "layout", "tables", "leaves">>

\* The steps of TransferHostToDeviceAsync, in the order of the code:
\* ChooseCompactLayoutForShape, AllocateScopedShapedBuffer,
\* WriteTupleIndexTablesAsync, then one TransferLiteralToDeviceAsync per leaf.
TransferSteps == <<"layout", "alloc", "tables", "leaves">>

StepNames == {TransferSteps[k] : k \in 1..Len(TransferSteps)}
StepAfter(step) ==
  TransferSteps[(CHOOSE k \in 1..Len(TransferSteps) : TransferSteps[k] = step) + 1]

\* An early return of TransferHostToDeviceAsync destroys its local
\* ScopedShapedBuffer 'buffer', which deallocates the memory it holds.
AfterEarlyReturn(m) == IF m = "allocated" THEN "freed" ELSE m

\* The materialization loop of FromPythonValues: the first pair, in index
\* order, whose StatusOr is an error ends the call with that error.
\* Otherwise outputs[i] is the buffer of transfers[i], for every i.
RECURSIVE MaterializeFrom(_, _, _, _, _)
MaterializeFrom(buffers, built, i, n, outputs) ==
  IF i >= n
    THEN [kind |-> "ok", stage |-> "none", at |-> -1, buffers |-> outputs]
  ELSE IF buffers[i] # "ok"
    THEN [kind |-> "error", stage |-> buffers[i], at |-> i, buffers |-> <<>>]
    ELSE MaterializeFrom(buffers, built, i + 1, n, Append(outputs, built[i]))

\* ------------------------------------------------------------ compile
\* A Shape as Compile sees it: an array subshape has a layout or has none.
ArrayWith(layout) == [kind |-> "array", elems |-> <<>>, layout |-> layout]
TupleOf(es) == [kind |-> "tuple", elems |-> es, layout |-> "none"]

\* The shapes passed to Compile: arrays and tuples of up to two arrays, each
\* array with a layout given by the caller or without one.
CallerArrays == {ArrayWith("none"), ArrayWith("given")}
CompileShapes == CallerArrays \cup {TupleOf(es) : es \in SeqsUpTo(CallerArrays, 2)}

\* LayoutUtil::ClearLayout
RECURSIVE ClearLayout(_)
ClearLayout(shape) ==
  IF ~IsTuple(shape) THEN ArrayWith("none")
  ELSE TupleOf([i \in 1..Len(shape.elems) |-> ClearLayout(shape.elems[i])])

\* The lambda assign_layouts: ForEachMutableSubshapeWithStatus visits the
\* subshapes in pre-order and stops at the first error. An array subshape
\* without a layout gets the default layout and is then replaced by what
\* ChooseCompactLayoutForShape returns; when that call fails (it is the
\* fail_at-th call of the layout service during this Compile) the subshape
\* keeps the default layout and the error is the lambda's result.
RECURSIVE AssignLayouts(_, _, _)
RECURSIVE AssignElements(_, _, _, _)
AssignLayouts(shape, calls, fail_at) ==
  IF IsTuple(shape) THEN AssignElements(shape, 0, calls, fail_at)
  ELSE IF shape.layout # "none"
    THEN [shape |-> shape, status |-> "ok", calls |-> calls]
  ELSE IF calls + 1 = fail_at
    THEN [shape |-> ArrayWith("default"), status |-> "LayoutError",
          calls |-> calls + 1]
    ELSE [shape |-> ArrayWith("compact"), status |-> "ok", calls |-> calls + 1]

AssignElements(shape, i, calls, fail_at) ==
  IF i >= TupleElementCount(shape)
    THEN [shape |-> shape, status |-> "ok", calls |-> calls]
    ELSE LET r == AssignLayouts(GetSubshape(shape, i), calls, fail_at)
             assigned == [shape EXCEPT !.elems[i + 1] = r.shape]
         IN IF r.status # "ok"
              THEN [shape |-> assigned, status |-> r.status, calls |-> r.calls]
              ELSE AssignElements(assigned, i + 1, r.calls, fail_at)

\* for (Shape& layout : argument_layouts) { ...; assign_layouts(&layout); }
\* 'statuses' collects what each assign_layouts call returned.
RECURSIVE AssignArguments(_, _, _, _, _)
AssignArguments(layouts, i, calls, fail_at, statuses) ==
  IF i > Len(layouts)
    THEN [layouts |-> layouts, calls |-> calls, statuses |-> statuses]
    ELSE LET r == AssignLayouts(layouts[i], calls, fail_at)
         IN AssignArguments([layouts EXCEPT ![i] = r.shape], i + 1, r.calls,
                            fail_at, Append(statuses, r.status))

NoCompile == [kind |-> "none", stage |-> "none", statuses |-> <<>>,
              argument_layouts |-> <<>>, result_layout |-> ArrayWith("none"),
              num_replicas |-> 0]

\* options.result_layout() of build options that set no result layout (or
\* of no build options at all).
NoLayoutOption == [kind |-> "absent", elems |-> <<>>, layout |-> "none"]

\* PyLocalExecutable::Compile, from its arguments and from what the
\* services it calls answer. The value of each assign_layouts(...) call is
\* discarded (the calls are expression statements); 'statuses' keeps what
\* they returned.
CompileResult(in) ==
  LET a == AssignArguments(in.argument_layouts, 1, 0, in.layout_fail_at, <<>>)
      r == AssignLayouts(IF in.result_layout.kind # "absent"
                           THEN in.result_layout
                           ELSE ClearLayout(in.program_result),
                         a.calls, in.layout_fail_at)
      statuses == Append(a.statuses, r.status)
      failure(stage, sts) == [NoCompile EXCEPT !.kind = "error",
                                !.stage = stage, !.statuses = sts]
  IN IF in.result_layout.kind = "absent" /\ ~in.program_shape_ok
       THEN failure("program_shape", a.statuses)
     ELSE IF ~in.compiler_ok
       THEN failure("compile", statuses)
     ELSE IF ~in.placer_ok
       THEN failure("placement", statuses)
     ELSE [kind |-> "ok", stage |-> "none", statuses |-> statuses,
           argument_layouts |-> a.layouts, result_layout |-> r.shape,
           num_replicas |-> in.num_replicas]

\* The calls of Compile explored.
CompileCalls ==
  [argument_layouts : SeqsUpTo(CompileShapes, MaxCompileArgs),
   result_layout : {NoLayoutOption, ArrayWith("none"), ArrayWith("given")},
   program_result : {ArrayWith("given"),
                     TupleOf(<<ArrayWith("given"), ArrayWith("given")>>)},
   program_shape_ok : BOOLEAN,
   layout_fail_at : 0..3,
   compiler_ok : BOOLEAN,
   placer_ok : BOOLEAN,
   num_replicas : 1..2]

\* ------------------------------------------------------------------ Init
InitCompileNone ==
  /\ compile_call = <<>>
  /\ compile_ret = NoCompile

\* Compile is called and returns.
Compile ==
  /\ compile_ret.kind = "none"
  /\ \E in \in CompileCalls :
       /\ compile_call' = in
       /\ compile_ret' = CompileResult(in)
  /\ UNCHANGED <<execVars, bufVars, xferVars>>

\* The caller has its answer and goes on to another Compile.
CompileContinues ==
  /\ compile_ret.kind # "none"
  /\ compile_call' = <<>>
  /\ compile_ret' = NoCompile
  /\ UNCHANGED <<execVars, bufVars, xferVars>>

NextCompile == Compile \/ CompileContinues

InitExec(cs, maxd) ==
  /\ device_count \in 1..maxd
  /\ callers = cs
  /\ pc = [c \in CallerIds |-> "idle"]
  /\ call = [c \in CallerIds |-> NoCall]
  /\ sched = [c \in CallerIds |-> 0]
  /\ running = [c \in CallerIds |-> 0]
  /\ failed = [c \in CallerIds |-> 0]
  /\ first_failure_status = [c \in CallerIds |-> OkStatus]
  /\ results = [c \in CallerIds |-> <<>>]
  /\ ret = [c \in CallerIds |-> NoRet]
  /\ started = [c \in CallerIds |-> {}]
  /\ queue = [t \in ThreadIds |-> <<>>]
  /\ cur = [t \in ThreadIds |-> None]
  /\ terminated = FALSE
  /\ mu = [c \in CallerIds |-> MuFree]

\* ------------------------------------------------------- actions (exec)
\* ExecutePerReplica up to the point where it has validated its arguments
\* and set up results, running, failed and first_failure_status; on the
\* one-replica path, up to the point where execute(0) calls Run.
CallExecutePerReplica(c) ==
  /\ ~terminated /\ c \in callers /\ pc[c] = "idle" /\ mpc = "idle"
  /\ UNCHANGED <<allocated, handed_out, called, last, ops_done>>
  /\ UNCHANGED <<xferVars, compVars>>
  /\ \E n \in 1..(device_count + 1), argLen \in 0..(device_count + 1) :
     \E assign \in Assignments(n), hss \in [1..argLen -> ArgLists] :
       LET e == [op |-> "ExecutePerReplica", n |-> n, assign |-> assign,
                 argLen |-> argLen, handles |-> hss,
                 pre |-> BeforeCall(hss)]
       IN /\ call' = [call EXCEPT ![c] = e]
          /\ IF ValidateArgs(argLen, n, device_count) # "ok"
               THEN /\ ret' = [ret EXCEPT ![c] =
                          [NoRet EXCEPT !.kind = "InvalidArgument"]]
                    /\ pc' = [pc EXCEPT ![c] = "returned"]
                    /\ UNCHANGED <<results, running, failed,
                                   first_failure_status, started, bufs>>
               ELSE /\ results' = [results EXCEPT ![c] =
                          [r \in 0..(n - 1) |-> Unset]]
                    /\ IF UsesFastPath(n)
                         THEN /\ pc' = [pc EXCEPT ![c] = "run_sync"]
                              /\ started' = [started EXCEPT ![c] = {0}]
                              /\ bufs' = PushArguments(bufs, hss[1])
                              /\ UNCHANGED <<running, failed,
                                             first_failure_status>>
                         ELSE /\ pc' = [pc EXCEPT ![c] = "schedule"]
                              /\ UNCHANGED <<started, bufs>>
                              /\ running' = [running EXCEPT ![c] = n]
                              /\ failed' = [failed EXCEPT ![c] = 0]
                              /\ first_failure_status' =
                                   [first_failure_status EXCEPT ![c] = OkStatus]
                    /\ UNCHANGED ret
  /\ UNCHANGED <<device_count, callers, mu, sched, queue, cur, terminated>>

\* Execute up to the point where it calls executable_->Run; its local
\* result_buffer_status is kept in results[c][0]. The argument handles are
\* intact buffers.
CallExecute(c) ==
  /\ ~terminated /\ c \in callers /\ pc[c] = "idle" /\ mpc = "idle"
  /\ UNCHANGED <<allocated, handed_out, called, last, ops_done>>
  /\ UNCHANGED <<xferVars, compVars>>
  /\ \E n \in 1..(device_count + 1) :
     \E assign \in Assignments(n), hs \in ArgLists :
       LET e == [op |-> "Execute", n |-> n, assign |-> assign, argLen |-> 1,
                 handles |-> <<hs>>, pre |-> BeforeCall(<<hs>>)]
       IN /\ call' = [call EXCEPT ![c] = e]
          /\ IF ExecuteCheck(n) # "ok"
               THEN /\ ret' = [ret EXCEPT ![c] =
                          [NoRet EXCEPT !.kind = ExecuteCheck(n)]]
                    /\ pc' = [pc EXCEPT ![c] = "returned"]
                    /\ UNCHANGED <<started, results, bufs>>
               ELSE /\ pc' = [pc EXCEPT ![c] = "run_sync"]
                    /\ bufs' = PushArguments(bufs, hs)
                    /\ started' = [started EXCEPT ![c] = {0}]
                    /\ results' = [results EXCEPT ![c] =
                          [r \in 0..0 |-> Unset]]
                    /\ UNCHANGED ret
  /\ UNCHANGED <<device_count, callers, mu, sched, running, failed,
                 first_failure_status, queue, cur, terminated>>

\* executable_->Run returns on the calling thread (Execute, or the one-replica
\* fast path of ExecutePerReplica, which stores it in results[0]).
RunSyncReturns(c) ==
  /\ ~terminated /\ c \in callers /\ pc[c] = "run_sync"
  /\ UNCHANGED <<bufVars, xferVars, compVars>>
  /\ \E status_or \in {RunOk(0), RunFailed(0)} :
       IF call[c].op = "Execute"
         THEN /\ results' = [results EXCEPT ![c][0] = status_or]
              /\ ret' = [ret EXCEPT ![c] = ExecuteReturn(status_or)]
              /\ pc' = [pc EXCEPT ![c] = "returned"]
         ELSE /\ results' = [results EXCEPT ![c][0] = status_or]
              /\ pc' = [pc EXCEPT ![c] = "wrap"]
              /\ UNCHANGED ret
  /\ UNCHANGED <<device_count, callers, mu, call, sched, running, failed,
                 first_failure_status, started, queue, cur, terminated>>

\* One iteration of the loop that schedules a closure per replica.
ScheduleReplica(c) ==
  /\ ~terminated /\ c \in callers /\ pc[c] = "schedule"
  /\ UNCHANGED <<bufVars, xferVars, compVars>>
  /\ LET replica == sched[c]
         t == ThreadOf(replica)
     IN /\ queue' = [queue EXCEPT ![t] =
               Append(@, [caller |-> c, replica |-> replica, phase |-> "queued"])]
        /\ started' = [started EXCEPT ![c] = @ \cup {replica}]
        /\ IF replica + 1 < call[c].n
             THEN /\ sched' = [sched EXCEPT ![c] = replica + 1]
                  /\ UNCHANGED pc
             ELSE /\ sched' = [sched EXCEPT ![c] = 0]
                  /\ pc' = [pc EXCEPT ![c] = "await"]
  /\ UNCHANGED <<device_count, callers, mu, call, running, failed,
                 first_failure_status, results, ret, cur, terminated>>

\* A worker thread takes the next closure of its queue and runs execute()
\* up to the point where it calls Run.
WorkerStart(t) ==
  /\ ~terminated /\ t \in Threads
  /\ UNCHANGED <<allocated, handed_out, called, last, ops_done>>
  /\ UNCHANGED <<xferVars, compVars>>
  /\ cur[t] = None /\ queue[t] # <<>>
  /\ bufs' = PushArguments(bufs, call[Head(queue[t]).caller]
                                    .handles[Head(queue[t]).replica + 1])
  /\ cur' = [cur EXCEPT ![t] = [Head(queue[t]) EXCEPT !.phase = "run"]]
  /\ queue' = [queue EXCEPT ![t] = Tail(@)]
  /\ UNCHANGED <<device_count, callers, mu, pc, call, sched, running, failed,
                 first_failure_status, results, ret, started, terminated>>

\* results[replica] = execute(replica);
ReplicaRunReturns(t) ==
  /\ ~terminated /\ t \in Threads
  /\ UNCHANGED <<bufVars, xferVars, compVars>>
  /\ cur[t].phase = "run"
  /\ LET c == cur[t].caller
         replica == cur[t].replica
     IN \E status_or \in {RunOk(replica), RunFailed(replica)} :
          results' = [results EXCEPT
                        ![c][ResultSlot(results[c], replica)] = status_or]
  /\ cur' = [cur EXCEPT ![t].phase = "wrote"]
  /\ UNCHANGED <<device_count, callers, mu, pc, call, sched, running, failed,
                 first_failure_status, ret, started, queue, terminated>>

\* The replicas of caller c's call that have entered execute() on a worker
\* thread: scheduled, and no longer waiting in the thread's queue.
EnteredRun(c) ==
  {r \in started[c] :
     \A k \in 1..Len(queue[ThreadOf(r)]) :
       ~(queue[ThreadOf(r)][k].caller = c /\ queue[ThreadOf(r)][k].replica = r)}

\* results[replica] = execute(replica) for a program with an on-device
\* barrier: Run returns only once every replica of the same call has
\* entered Run.
BarrierRunReturns(t) ==
  /\ ~terminated /\ t \in Threads
  /\ UNCHANGED <<bufVars, xferVars, compVars>>
  /\ cur[t].phase = "run"
  /\ LET c == cur[t].caller
         replica == cur[t].replica
     IN /\ EnteredRun(c) = 0..(call[c].n - 1)
        /\ \E status_or \in {RunOk(replica), RunFailed(replica)} :
             results' = [results EXCEPT
                           ![c][ResultSlot(results[c], replica)] = status_or]
  /\ cur' = [cur EXCEPT ![t].phase = "wrote"]
  /\ UNCHANGED <<device_count, callers, mu, pc, call, sched, running, failed,
                 first_failure_status, ret, started, queue, terminated>>

\* --running; if (!results[replica].ok()) { if (failed == 0) {...} ++failed; }
LockedSection(c, replica) ==
  /\ running' = [running EXCEPT ![c] = @ - 1]
  /\ IF ~results[c][replica].ok
       THEN /\ first_failure_status' =
                 IF failed[c] = 0
                   THEN [first_failure_status EXCEPT ![c] =
                           results[c][replica].err]
                   ELSE first_failure_status
            /\ failed' = [failed EXCEPT ![c] = @ + 1]
       ELSE UNCHANGED <<first_failure_status, failed>>

\* absl::MutexLock lock(&mu); --running; if (!results[replica].ok()) {...}
\* and the end of the closure, which releases mu: one step, taken when the
\* mutex is free.
ReplicaLockSection(t) ==
  /\ ~terminated /\ t \in Threads
  /\ UNCHANGED <<bufVars, xferVars, compVars>>
  /\ cur[t].phase = "wrote"
  /\ mu[cur[t].caller] = MuFree
  /\ LockedSection(cur[t].caller, cur[t].replica)
  /\ cur' = [cur EXCEPT ![t] = None]
  /\ UNCHANGED <<device_count, callers, mu, pc, call, sched, results, ret,
                 started, queue, terminated>>

\* The same code, statement by statement. absl::MutexLock lock(&mu) in the
\* closure: the worker thread blocks until the mutex is free.
ReplicaLock(t) ==
  /\ ~terminated /\ t \in Threads
  /\ UNCHANGED <<bufVars, xferVars, compVars>>
  /\ cur[t].phase = "wrote"
  /\ mu[cur[t].caller] = MuFree
  /\ mu' = [mu EXCEPT ![cur[t].caller] = MutexLock(@, t)]
  /\ cur' = [cur EXCEPT ![t].phase = "locked"]
  /\ UNCHANGED <<device_count, callers, pc, call, sched, running, failed,
                 first_failure_status, results, ret, started, queue,
                 terminated>>

\* The statements of the closure after the lock was taken, and the end of
\* the closure, where the lock object releases the mutex.
ReplicaLockedSection(t) ==
  /\ ~terminated /\ t \in Threads
  /\ UNCHANGED <<bufVars, xferVars, compVars>>
  /\ cur[t].phase = "locked"
  /\ LockedSection(cur[t].caller, cur[t].replica)
  /\ mu' = [mu EXCEPT ![cur[t].caller] = MuFree]
  /\ cur' = [cur EXCEPT ![t] = None]
  /\ UNCHANGED <<device_count, callers, pc, call, sched, results, ret,
                 started, queue, terminated>>

\* absl::MutexLock lock(&mu); mu.Await(done_running_or_failed): Await gives
\* the mutex up while the condition is false and returns, holding it, once
\* the condition is true.
AwaitReturns(c) ==
  /\ ~terminated /\ c \in callers /\ pc[c] = "await"
  /\ UNCHANGED <<bufVars, xferVars, compVars>>
  /\ mu[c] = MuFree
  /\ DoneRunningOrFailed(c)
  /\ mu' = [mu EXCEPT ![c] = MutexLock(@, CallerThread)]
  /\ pc' = [pc EXCEPT ![c] = "locked"]
  /\ UNCHANGED <<device_count, callers, call, sched, running, failed,
                 first_failure_status, results, ret, started, queue, cur,
                 terminated>>

\* if (failed > 0) with the mutex held: without a failure the block ends
\* and the lock object releases the mutex; with one, AwaitWithTimeout gives
\* the mutex up while it waits.
CheckFailed(c) ==
  /\ ~terminated /\ c \in callers /\ pc[c] = "locked"
  /\ UNCHANGED <<bufVars, xferVars, compVars>>
  /\ pc' = [pc EXCEPT ![c] = IF failed[c] > 0 THEN "await_timeout" ELSE "wrap"]
  /\ mu' = [mu EXCEPT ![c] = MuFree]
  /\ UNCHANGED <<device_count, callers, call, sched, running, failed,
                 first_failure_status, results, ret, started, queue, cur,
                 terminated>>

\* Mutant: the first wait is bounded by the timeout as well.
TimeoutArmed_FirstWait(c) == pc[c] \in {"await", "await_timeout"}

\* The wait the caller is in is the one with a timeout:
\* mu.AwaitWithTimeout(done_running, absl::Seconds(10)), reached only inside
\* if (failed > 0).
TimeoutArmed(c) == pc[c] = "await_timeout"

\* mu.Await(absl::Condition(&done_running_or_failed)); if (failed > 0) ...
AwaitDoneRunningOrFailed(c) ==
  /\ ~terminated /\ c \in callers /\ pc[c] = "await"
  /\ UNCHANGED <<bufVars, xferVars, compVars>>
  /\ mu[c] = MuFree
  /\ DoneRunningOrFailed(c)
  /\ pc' = [pc EXCEPT ![c] = IF failed[c] > 0 THEN "await_timeout" ELSE "wrap"]
  /\ UNCHANGED <<device_count, callers, mu, call, sched, running, failed,
                 first_failure_status, results, ret, started, queue, cur,
                 terminated>>

\* mu.AwaitWithTimeout(done_running, 10 s) returns true.
AwaitDoneRunning(c) ==
  /\ ~terminated /\ c \in callers /\ TimeoutArmed(c)
  /\ UNCHANGED <<bufVars, xferVars, compVars>>
  /\ mu[c] = MuFree
  /\ DoneRunning(c)
  /\ pc' = [pc EXCEPT ![c] = "wrap"]
  /\ UNCHANGED <<device_count, callers, mu, call, sched, running, failed,
                 first_failure_status, results, ret, started, queue, cur,
                 terminated>>

\* mu.AwaitWithTimeout(done_running, 10 s) returns false: LOG(FATAL).
AwaitTimesOut(c) ==
  /\ ~terminated /\ c \in callers /\ TimeoutArmed(c)
  /\ UNCHANGED <<bufVars, xferVars, compVars>>
  /\ mu[c] = MuFree
  /\ ~DoneRunning(c)
  /\ pc' = [pc EXCEPT ![c] = "fatal"]
  /\ terminated' = TRUE
  /\ UNCHANGED <<device_count, callers, mu, call, sched, running, failed,
                 first_failure_status, results, ret, started, queue, cur>>

\* The wrapping loop and the return of ExecutePerReplica.
WrapAndReturn(c) ==
  /\ ~terminated /\ c \in callers /\ pc[c] = "wrap"
  /\ UNCHANGED <<bufVars, xferVars, compVars>>
  /\ ret' = [ret EXCEPT ![c] = ReturnedStatus(c)]
  /\ pc' = [pc EXCEPT ![c] = "returned"]
  /\ UNCHANGED <<device_count, callers, mu, call, sched, running, failed,
                 first_failure_status, results, started, queue, cur,
                 terminated>>

\* The caller has its answer; the call's locals go out of scope.
CallerContinues(c) ==
  /\ ~terminated /\ c \in callers /\ pc[c] = "returned"
  /\ UNCHANGED <<bufVars, xferVars, compVars>>
  /\ pc' = [pc EXCEPT ![c] = "idle"]
  /\ call' = [call EXCEPT ![c] = NoCall]
  /\ running' = [running EXCEPT ![c] = 0]
  /\ failed' = [failed EXCEPT ![c] = 0]
  /\ first_failure_status' = [first_failure_status EXCEPT ![c] = OkStatus]
  /\ results' = [results EXCEPT ![c] = <<>>]
  /\ ret' = [ret EXCEPT ![c] = NoRet]
  /\ started' = [started EXCEPT ![c] = {}]
  /\ UNCHANGED <<device_count, callers, mu, sched, queue, cur, terminated>>

\* ---------------------------------------------------- Init (buffers)
InitBufNone ==
  /\ bufs = <<>>
  /\ allocated = {}
  /\ handed_out = {}
  /\ called = <<>>
  /\ last = NoOp
  /\ ops_done = 0

\* One intact buffer (made by a transfer or an execution) of any shape of
\* 'shapes'; its region at ShapeIndex idx is named idx.
InitBufOf(shapes) ==
  /\ \E shape \in shapes :
       /\ bufs = [b \in {<<>>} |->
                    [present |-> TRUE, shape |-> shape,
                     mem |-> [idx \in Indices(shape) |-> idx]]]
       /\ allocated = Indices(shape)
  /\ handed_out = {}
  /\ called = [b \in {<<>>} |-> {}]
  /\ last = NoOp
  /\ ops_done = 0

InitBuf == InitBufOf(Shapes)

\* ---------------------------------------------------- actions (buffers)
Record(b, op, outcome) ==
  /\ last' = [buf |-> b, op |-> op, outcome |-> outcome,
              repeat |-> op \in called[b],
              made |-> DOMAIN bufs' \ DOMAIN bufs, pre |-> bufs[b]]
  /\ called' = [x \in DOMAIN bufs' |->
                  IF x = b THEN called[b] \cup {op}
                  ELSE IF x \in DOMAIN called THEN called[x] ELSE {}]
  /\ ops_done' = ops_done + 1

\* PyLocalBuffer::ToPython: shaped_buffer() is &shaped_buffer_.value(), which
\* throws bad_optional_access on an empty optional; otherwise the literal is
\* read back, which the transfer manager may fail.
ToPython(b) ==
  /\ ops_done < MaxBufferOps /\ b \in DOMAIN bufs
  /\ UNCHANGED <<bufs, allocated, handed_out>>
  /\ \E outcome \in (IF bufs[b].present THEN {"ok", "TransferError"}
                     ELSE {"bad_optional_access"}) :
       Record(b, "ToPython", outcome)
  /\ UNCHANGED <<execVars, xferVars, compVars>>

\* PyLocalBuffer::Release called by the owner of the buffer object.
Release(b) ==
  /\ ops_done < MaxBufferOps /\ b \in DOMAIN bufs
  /\ IF bufs[b].present
       THEN /\ bufs' = [bufs EXCEPT ![b] = Released(bufs[b])]
            /\ handed_out' = handed_out \cup RegionsOf(bufs[b].mem)
            /\ Record(b, "Release", "ok")
       ELSE /\ UNCHANGED <<bufs, handed_out>>
            /\ \E outcome \in UndefinedOutcomes : Record(b, "Release", outcome)
  /\ UNCHANGED allocated
  /\ UNCHANGED <<execVars, xferVars, compVars>>

\* PyLocalBuffer::DestructureTuple.
DestructureTuple(b) ==
  /\ ops_done < MaxBufferOps /\ b \in DOMAIN bufs
  /\ IF DestructureCheck(bufs[b]) # "ok"
       THEN /\ UNCHANGED <<bufs, allocated>>
            /\ Record(b, "DestructureTuple", DestructureCheck(bufs[b]))
       ELSE LET tuple_shape == bufs[b].shape
                tuple_buffer == bufs[b].mem
                after == Released(bufs[b])
                d == DestructureFrom(tuple_shape, tuple_buffer, 0, <<>>)
                kids == {b \o <<i>> : i \in 0..(TupleElementCount(tuple_shape) - 1)}
            IN /\ bufs' = [x \in DOMAIN bufs \cup kids |->
                            IF x = b THEN after
                            ELSE IF x \in kids
                              THEN [present |-> TRUE,
                                    shape |-> GetSubshape(tuple_shape, x[Len(x)]),
                                    mem |-> d.children[x[Len(x)] + 1]]
                              ELSE bufs[x]]
               /\ allocated' = allocated \ ScopedDestroy(d.rest)
               /\ Record(b, "DestructureTuple", "ok")
  /\ UNCHANGED handed_out
  /\ UNCHANGED <<execVars, xferVars, compVars>>

NextBuf ==
  \/ \E b \in DOMAIN bufs : ToPython(b)
  \/ \E b \in DOMAIN bufs : Release(b)
  \/ \E b \in DOMAIN bufs : DestructureTuple(b)

\* ------------------------------------------------ Init (batch transfer)
InitXferNone ==
  /\ args = <<>>
  /\ mpc = "idle"
  /\ bi = 0
  /\ tpc = <<>>
  /\ leaf = <<>>
  /\ tbuffer = <<>>
  /\ mem = <<>>
  /\ buffer = <<>>
  /\ pending = <<>>
  /\ enq = <<>>
  /\ counter = 0
  /\ xret = NoXRet
  /\ host = <<>>

\* --------------------------------------------- actions (batch transfer)
\* FromPythonValues up to the start of the transfers: the empty batch
\* returns at once; GetPythonBufferTree is called for every pair, then
\* BorrowStream for every pair, each loop returning on its first error;
\* then pairs 1..N-1 are scheduled on the transfer pool, the counter is set
\* and pair 0 is started on the calling thread.
StartBatch ==
  /\ mpc = "idle" /\ \A c \in callers : pc[c] = "idle"
  /\ \E n \in 0..MaxBatch :
     \E a \in [0..(n - 1) -> [shape : TreeShapes, device : Devices]] :
     \E outcome \in {[stage |-> "ok", at |-> -1]}
                      \cup [stage : {"tree", "stream"}, at : 0..(n - 1)] :
       /\ args' = [i \in 0..(n - 1) |->
                     [shape |-> a[i].shape, device |-> a[i].device,
                      leaves |-> LeavesOf(i, a[i].shape)]]
       /\ buffer' = [i \in 0..(n - 1) |-> NoBuffer]
       /\ host' = [i \in 0..(n - 1) |-> NoHostValue]
       /\ tpc' = [i \in 0..(n - 1) |->
                    IF outcome.stage # "ok" THEN "none"
                    ELSE IF i = 0 THEN TransferSteps[1] ELSE "queued"]
       /\ leaf' = [i \in 0..(n - 1) |-> 0]
       /\ tbuffer' = [i \in 0..(n - 1) |-> "unset"]
       /\ mem' = [i \in 0..(n - 1) |-> "none"]
       /\ pending' = [i \in 0..(n - 1) |-> 0]
       /\ enq' = [i \in 0..(n - 1) |-> 0]
       /\ IF n = 0
            THEN /\ outcome.stage = "ok"
                 /\ mpc' = "returned"
                 /\ xret' = [kind |-> "ok", stage |-> "none", at |-> -1,
                             buffers |-> <<>>]
                 /\ counter' = 0
            ELSE IF outcome.stage # "ok"
              THEN /\ mpc' = "returned"
                   /\ xret' = [kind |-> "error", stage |-> outcome.stage,
                               at |-> outcome.at, buffers |-> <<>>]
                   /\ counter' = 0
              ELSE /\ mpc' = "transfer"
                   /\ xret' = NoXRet
                   /\ counter' = n - 1
  /\ bi' = 0
  /\ UNCHANGED <<execVars, bufVars, compVars>>

\* A thread of h2d_transfer_pool (device_count threads) takes a closure.
PoolStart(i) ==
  /\ mpc = "transfer" /\ i \in DOMAIN tpc /\ tpc[i] = "queued"
  /\ Cardinality({j \in DOMAIN tpc \ {0} : tpc[j] \in StepNames})
       < device_count
  /\ tpc' = [tpc EXCEPT ![i] = TransferSteps[1]]
  /\ UNCHANGED <<args, mpc, bi, leaf, tbuffer, mem, buffer, pending, enq,
                 counter, xret, host>>
  /\ UNCHANGED <<execVars, bufVars, compVars>>

\* transfers[i].buffer = transfer_h2d(i) has its value; a pool closure then
\* calls counter.DecrementCount().
Finish(i, status, m) ==
  /\ tbuffer' = [tbuffer EXCEPT ![i] = status]
  /\ mem' = [mem EXCEPT ![i] = m]
  /\ tpc' = [tpc EXCEPT ![i] = "done"]
  /\ counter' = IF i = 0 THEN counter ELSE counter - 1

\* One step of TransferHostToDeviceAsync for pair i, on the thread that runs
\* it; every call into the transfer manager may fail.
TransferStep(i) ==
  /\ mpc = "transfer" /\ i \in DOMAIN tpc /\ tpc[i] \in StepNames
  /\ LET step == tpc[i]
         shape == args[i].shape
     IN \E ok \in BOOLEAN :
          CASE step = "layout" ->
                 IF ok
                   THEN /\ tpc' = [tpc EXCEPT ![i] = StepAfter(step)]
                        /\ UNCHANGED <<tbuffer, mem, buffer, counter, leaf,
                                       pending, enq>>
                   ELSE /\ Finish(i, "layout", AfterEarlyReturn(mem[i]))
                        /\ UNCHANGED <<buffer, leaf, pending, enq>>
            [] step = "alloc" ->
                 IF ok
                   THEN /\ tpc' = [tpc EXCEPT ![i] = StepAfter(step)]
                        /\ mem' = [mem EXCEPT ![i] = "allocated"]
                        /\ buffer' = [buffer EXCEPT ![i] =
                                        [shape |-> shape,
                                         device |-> args[i].device,
                                         data |-> <<>>]]
                        /\ UNCHANGED <<tbuffer, counter, leaf, pending, enq>>
                   ELSE /\ Finish(i, "alloc", AfterEarlyReturn(mem[i]))
                        /\ UNCHANGED <<buffer, leaf, pending, enq>>
            [] step = "tables" ->
                 IF ok
                   THEN /\ tpc' = [tpc EXCEPT ![i] = StepAfter(step)]
                        /\ pending' = [pending EXCEPT ![i] =
                                         IF IsTuple(shape) THEN @ + 1 ELSE @]
                        /\ enq' = [enq EXCEPT ![i] =
                                     IF IsTuple(shape) THEN @ + 1 ELSE @]
                        /\ UNCHANGED <<tbuffer, mem, buffer, counter, leaf>>
                   ELSE /\ IsTuple(shape)
                        /\ Finish(i, "tables", AfterEarlyReturn(mem[i]))
                        /\ UNCHANGED <<buffer, leaf, pending, enq>>
            [] step = "leaves" ->
                 IF ok
                   THEN /\ leaf' = [leaf EXCEPT ![i] = @ + 1]
                        /\ buffer' = [buffer EXCEPT ![i].data =
                             WriteLeaf(@, GetLeafShapes(shape)[leaf[i] + 1],
                                       LeafValue(args[i].leaves, leaf[i]))]
                        /\ pending' = [pending EXCEPT ![i] = @ + 1]
                        /\ enq' = [enq EXCEPT ![i] = @ + 1]
                        /\ IF leaf[i] + 1 = LeafCount(shape)
                             THEN Finish(i, "ok", mem[i])
                             ELSE UNCHANGED <<tpc, tbuffer, mem, counter>>
                   ELSE /\ Finish(i, "leaf", AfterEarlyReturn(mem[i]))
                        /\ UNCHANGED <<buffer, leaf, pending, enq>>
  /\ UNCHANGED <<args, mpc, bi, xret, host>>
  /\ UNCHANGED <<execVars, bufVars, compVars>>

\* The device completes the oldest write of a stream.
StreamCompletes(i) ==
  /\ i \in DOMAIN pending /\ pending[i] > 0
  /\ pending' = [pending EXCEPT ![i] = @ - 1]
  /\ UNCHANGED <<args, mpc, bi, tpc, leaf, tbuffer, mem, buffer, enq, counter,
                 xret, host>>
  /\ UNCHANGED <<execVars, bufVars, compVars>>

\* transfer_h2d(0) has returned on the calling thread and counter.Wait()
\* returns.
WaitCounter ==
  /\ mpc = "transfer" /\ tpc[0] = "done" /\ counter = 0
  /\ mpc' = "block"
  /\ bi' = 0
  /\ UNCHANGED <<args, tpc, leaf, tbuffer, mem, buffer, pending, enq, counter,
                 xret, host>>
  /\ UNCHANGED <<execVars, bufVars, compVars>>

\* transfers[bi].stream->BlockHostUntilDone(); after the last stream the
\* results are materialized in index order. On the first error the function
\* returns: 'outputs' and 'transfers' go out of scope and every buffer of
\* the batch is deallocated.
BlockStream ==
  /\ mpc = "block" /\ pending[bi] = 0
  /\ IF bi + 1 < Cardinality(DOMAIN args)
       THEN /\ bi' = bi + 1
            /\ UNCHANGED <<mpc, mem, xret, host>>
       ELSE LET r == MaterializeFrom(tbuffer, buffer, 0,
                                     Cardinality(DOMAIN args), <<>>)
            IN /\ xret' = r
               /\ mpc' = "returned"
               /\ bi' = 0
               /\ mem' = IF r.kind = "ok" THEN mem
                         ELSE [i \in DOMAIN mem |-> AfterEarlyReturn(mem[i])]
  /\ UNCHANGED <<args, tpc, leaf, tbuffer, buffer, pending, enq, counter,
                 host>>
  /\ UNCHANGED <<execVars, bufVars, compVars>>

\* The caller has its answer and goes on to another batch.
BatchContinues ==
  /\ mpc = "returned"
  /\ args' = <<>> /\ mpc' = "idle" /\ bi' = 0 /\ tpc' = <<>> /\ leaf' = <<>>
  /\ tbuffer' = <<>> /\ mem' = <<>> /\ buffer' = <<>>
  /\ pending' = <<>> /\ enq' = <<>>
  /\ counter' = 0 /\ xret' = NoXRet /\ host' = <<>>
  /\ UNCHANGED <<execVars, bufVars, compVars>>

\* PyLocalBuffer::ToPython on the k-th buffer a batch transfer returned:
\* ShapedBufferToLiteral reads the buffer back, which the transfer manager
\* may fail, and LiteralToPython makes the host value.
OutputToPython(k) ==
  /\ mpc = "returned" /\ xret.kind = "ok" /\ k \in DOMAIN host
  /\ \E ok \in BOOLEAN :
       host' = [host EXCEPT ![k] =
                  IF ok THEN LiteralToPython(
                               ShapedBufferToLiteral(xret.buffers[k + 1]))
                  ELSE [NoHostValue EXCEPT !.kind = "TransferError"]]
  /\ UNCHANGED <<args, mpc, bi, tpc, leaf, tbuffer, mem, buffer, pending, enq,
                 counter, xret>>
  /\ UNCHANGED <<execVars, bufVars, compVars>>

PairIds == 0..(MaxBatch - 1)

NextXfer ==
  \/ StartBatch
  \/ \E i \in PairIds : PoolStart(i)
  \/ \E i \in PairIds : TransferStep(i)
  \/ \E i \in PairIds : StreamCompletes(i)
  \/ \E i \in PairIds : OutputToPython(i)
  \/ WaitCounter
  \/ BlockStream
  \/ BatchContinues

NextExec ==
  \/ \E c \in CallerIds : CallExecutePerReplica(c)
  \/ \E c \in CallerIds : CallExecute(c)
  \/ \E c \in CallerIds : RunSyncReturns(c)
  \/ \E c \in CallerIds : ScheduleReplica(c)
  \/ \E t \in ThreadIds : WorkerStart(t)
  \/ \E t \in ThreadIds : ReplicaRunReturns(t)
  \/ \E t \in ThreadIds : ReplicaLockSection(t)
  \/ \E c \in CallerIds : AwaitDoneRunningOrFailed(c)
  \/ \E c \in CallerIds : AwaitDoneRunning(c)
  \/ \E c \in CallerIds : AwaitTimesOut(c)
  \/ \E c \in CallerIds : WrapAndReturn(c)
  \/ \E c \in CallerIds : CallerContinues(c)

\* One caller of Execute / ExecutePerReplica.
Init == InitExec({"A"}, MaxDevices) /\ InitBufNone /\ InitXferNone
  /\ InitCompileNone

Next == NextExec

Spec == Init /\ [][Next]_vars

InitConc == InitExec({"A", "B"}, MaxDevicesConc) /\ InitBufNone /\ InitXferNone
  /\ InitCompileNone
SpecConc == InitConc /\ [][Next]_vars

\* One caller of Execute / ExecutePerReplica that passes, any number of
\* times, an intact buffer it holds: an array or a tuple of two arrays.
InitArgs == InitExec({"A"}, MaxDevicesConc) /\ InitBufOf(TreeShapes)
  /\ InitXferNone
  /\ InitCompileNone
SpecArgs == InitArgs /\ [][NextExec]_vars

\* Two callers of ExecutePerReplica whose programs have an on-device
\* barrier. Every thread that can take a step eventually takes one: the
\* worker threads, the calling threads inside a call, and the bounded wait,
\* which returns one way or the other.
NextBarrier ==
  \/ \E c \in CallerIds : CallExecutePerReplica(c)
  \/ \E c \in CallerIds : RunSyncReturns(c)
  \/ \E c \in CallerIds : ScheduleReplica(c)
  \/ \E t \in ThreadIds : WorkerStart(t)
  \/ \E t \in ThreadIds : BarrierRunReturns(t)
  \/ \E t \in ThreadIds : ReplicaLockSection(t)
  \/ \E c \in CallerIds : AwaitDoneRunningOrFailed(c)
  \/ \E c \in CallerIds : AwaitDoneRunning(c)
  \/ \E c \in CallerIds : AwaitTimesOut(c)
  \/ \E c \in CallerIds : WrapAndReturn(c)
  \/ \E c \in CallerIds : CallerContinues(c)

FairBarrier ==
  /\ \A t \in ThreadIds :
       /\ WF_vars(WorkerStart(t))
       /\ WF_vars(BarrierRunReturns(t))
       /\ WF_vars(ReplicaLockSection(t))
  /\ \A c \in CallerIds :
       /\ WF_vars(RunSyncReturns(c))
       /\ WF_vars(ScheduleReplica(c))
       /\ WF_vars(AwaitDoneRunningOrFailed(c))
       /\ WF_vars(AwaitDoneRunning(c) \/ AwaitTimesOut(c))
       /\ WF_vars(WrapAndReturn(c))

SpecBarrier == InitConc /\ [][NextBarrier]_vars /\ FairBarrier

\* Buffer operations on one buffer and the buffers destructured from it.
InitBuffers == InitExec({}, 1) /\ InitBuf /\ InitXferNone
  /\ InitCompileNone
SpecBuf == InitBuffers /\ [][NextBuf]_vars

\* Calls of PyLocalExecutable::Compile.
InitCompile == InitExec({}, 1) /\ InitBufNone /\ InitXferNone
  /\ InitCompileNone
SpecCompile == InitCompile /\ [][NextCompile]_vars

\* One caller, with the steps that take and release mu taken one by one.
NextLock ==
  \/ \E c \in CallerIds : CallExecutePerReplica(c)
  \/ \E c \in CallerIds : CallExecute(c)
  \/ \E c \in CallerIds : RunSyncReturns(c)
  \/ \E c \in CallerIds : ScheduleReplica(c)
  \/ \E t \in ThreadIds : WorkerStart(t)
  \/ \E t \in ThreadIds : ReplicaRunReturns(t)
  \/ \E t \in ThreadIds : ReplicaLock(t)
  \/ \E t \in ThreadIds : ReplicaLockedSection(t)
  \/ \E c \in CallerIds : AwaitReturns(c)
  \/ \E c \in CallerIds : CheckFailed(c)
  \/ \E c \in CallerIds : AwaitDoneRunning(c)
  \/ \E c \in CallerIds : AwaitTimesOut(c)
  \/ \E c \in CallerIds : WrapAndReturn(c)
  \/ \E c \in CallerIds : CallerContinues(c)

InitLock == InitExec({"A"}, MaxDevicesConc) /\ InitBufNone /\ InitXferNone
  /\ InitCompileNone
SpecLock == InitLock /\ [][NextLock]_vars

\* One host thread that issues batch transfers and executions, one call at
\* a time.
NextSeq == NextExec \/ NextXfer
InitSeq == InitExec({"A"}, MaxDevicesConc) /\ InitBufNone /\ InitXferNone
  /\ InitCompileNone
SpecSeq == InitSeq /\ [][NextSeq]_vars

\* Batch transfers (FromPythonValues) issued by one caller.
InitTransfers == InitExec({}, MaxDevicesConc) /\ InitBufNone /\ InitXferNone
  /\ InitCompileNone
SpecXfer == InitTransfers /\ [][NextXfer]_vars

\* ------------------------------------------------------ derived state
\* The closures of caller c that are scheduled or executing.
ClosuresOf(c) ==
  {t \in ThreadIds : cur[t].caller = c}
    \cup {t \in ThreadIds : \E i \in 1..Len(queue[t]) : queue[t][i].caller = c}

\* The executions (executable_->Run) in flight: those of the worker threads
\* and those running on a caller's own thread (thread -1).
InFlight ==
  {[caller |-> cur[t].caller, replica |-> cur[t].replica,
    device |-> DeviceOf(call[cur[t].caller], cur[t].replica), thread |-> t] :
     t \in {u \in ThreadIds : cur[u].phase = "run"}}
  \cup
  {[caller |-> c, replica |-> 0, device |-> DeviceOf(call[c], 0),
    thread |-> -1] : c \in {d \in CallerIds : pc[d] = "run_sync"}}

MultiReplicaCall(c) ==
  /\ call[c].op = "ExecutePerReplica"
  /\ call[c].n > 1
  /\ call[c].argLen = call[c].n
  /\ call[c].n <= device_count

FailedReplicas(c) == {r \in 0..(call[c].n - 1) : ~results[c][r].ok}

Minimum(S) == CHOOSE x \in S : \A y \in S : x <= y

\* ---------------------------------------------------------------- claims

\* C1: a multi-replica ExecutePerReplica returns (results or error) only when
\* running = 0 and every replica closure it scheduled has finished: all were
\* scheduled, none is queued or executing.
C1_DrainedAtReturn ==
  \A c \in callers :
    (pc[c] \in {"wrap", "returned"} /\ MultiReplicaCall(c)) =>
      /\ running[c] = 0
      /\ started[c] = 0..(call[c].n - 1)
      /\ ClosuresOf(c) = {}

\* C1 witness: a multi-replica call has returned an error after a failure.
C1_Witness ==
  \E c \in callers :
    /\ pc[c] = "returned" /\ MultiReplicaCall(c)
    /\ failed[c] > 0 /\ failed[c] < call[c].n
    /\ ret[c].kind = "error"

\* C2: the error a multi-replica ExecutePerReplica returns is the failure of
\* the lowest-index failed replica, annotated with that index, whatever the
\* order in which the replicas completed.
C2_LowestIndexFailure ==
  \A c \in callers :
    (pc[c] = "returned" /\ MultiReplicaCall(c) /\ FailedReplicas(c) # {}) =>
      /\ ret[c].kind = "error"
      /\ ret[c].err = Minimum(FailedReplicas(c))
      /\ ret[c].note = Minimum(FailedReplicas(c))

\* C2 witness: two replicas failed, the higher index first, and the call has
\* returned.
C2_Witness ==
  \E c \in callers :
    /\ pc[c] = "returned" /\ MultiReplicaCall(c)
    /\ failed[c] >= 2
    /\ first_failure_status[c] > Minimum(FailedReplicas(c))
    /\ ret[c].kind = "error"

\* What C3 says of a state: the process is dead exactly when a call is in its
\* fatal exit, which happens only with a failure recorded and replicas still
\* running, and a multi-replica call that returns after a failure returns an
\* error from a live process.
C3_State ==
  /\ terminated <=> (\E c \in callers : pc[c] = "fatal")
  /\ \A c \in callers :
       /\ pc[c] = "fatal" =>
            /\ MultiReplicaCall(c) /\ failed[c] > 0 /\ running[c] > 0
            /\ ret[c] = NoRet
       /\ (pc[c] = "returned" /\ MultiReplicaCall(c) /\ failed[c] > 0) =>
            /\ ~terminated /\ ret[c].kind = "error"

\* What C3 says of a step: a call in its fatal exit never returns, and the
\* bounded wait is left towards the return only with running = 0, and with
\* replicas still running only by terminating the process.
C3_Step ==
  \A c \in callers :
    /\ pc[c] = "fatal" => pc'[c] = "fatal" /\ ret'[c] = NoRet
    /\ (pc[c] = "await_timeout" /\ pc'[c] # "await_timeout") =>
         IF running[c] = 0
           THEN pc'[c] = "wrap" /\ ~terminated'
           ELSE pc'[c] = "fatal" /\ terminated'

\* C3: the process is terminated exactly when the bounded wait that follows
\* a failure expires with replicas still running, and then the call never
\* returns; when the replicas all finish first, the process lives and the
\* call returns an ordinary error.
C3_FatalOnlyOnTimeout == [] C3_State /\ [][C3_Step]_vars

\* C3 witness: the bounded wait expired with a replica still running.
C3_Witness ==
  \E c \in callers :
    pc[c] = "fatal" /\ terminated /\ failed[c] > 0 /\ running[c] > 0

\* C4: an ExecutePerReplica whose argument list length differs from the
\* replica count or exceeds the device count returns InvalidArgument with no
\* replica run or scheduled and no shared state touched.
C4_RejectedBeforeDispatch ==
  \A c \in callers :
    (/\ pc[c] = "returned" /\ call[c].op = "ExecutePerReplica"
     /\ (call[c].argLen # call[c].n \/ call[c].argLen > device_count)) =>
      /\ ret[c].kind = "InvalidArgument"
      /\ started[c] = {}
      /\ ClosuresOf(c) = {}
      /\ results[c] = <<>>
      /\ running[c] = 0 /\ failed[c] = 0

\* C4 witness: a call with as many argument lists as replicas, but more than
\* there are devices, has been rejected.
C4_Witness ==
  \E c \in callers :
    /\ pc[c] = "returned" /\ call[c].op = "ExecutePerReplica"
    /\ call[c].argLen = call[c].n /\ call[c].argLen > device_count
    /\ ret[c].kind = "InvalidArgument"

\* C5 (as claimed): at most one execution is in flight on a device ordinal.
C5_OnePerDevice ==
  \A d \in Devices : Cardinality({x \in InFlight : x.device = d}) <= 1

\* C5 (amended): the executions of multi-replica calls run only on the worker
\* threads, the one of replica r on worker thread r, so at most one of them
\* is in flight per replica index; Execute and the one-replica path run on
\* the caller's thread.
C5_OnePerWorkerThread ==
  /\ \A x \in InFlight :
       IF call[x.caller].n > 1 THEN x.thread = x.replica ELSE x.thread = -1
  /\ \A r \in ThreadIds :
       Cardinality({x \in InFlight :
                      call[x.caller].n > 1 /\ x.replica = r}) <= 1

\* C5 witness: two callers have an execution in flight on the same device,
\* at least one of them dispatched by a worker thread.
C5_Witness ==
  \E x \in InFlight, y \in InFlight :
    /\ x.caller # y.caller /\ x.device = y.device
    /\ x.thread # -1

\* The buffers made by the last DestructureTuple, when it succeeded.
ChildrenOfLast == last.made

LastDestructured == last.op = "DestructureTuple" /\ last.outcome = "ok"

\* C8 (as claimed): ToPython, DestructureTuple or Release invoked again on a
\* buffer it was already invoked on does not succeed.
C8_SecondCallFails ==
  last.repeat => last.outcome \notin {"ok", "returns"}

\* C8 (amended): DestructureTuple invoked again on the same buffer never
\* succeeds and makes no buffer (InvalidArgument again for a non-tuple,
\* bad_optional_access once the buffer is consumed); ToPython consumes
\* nothing, so it is no single-use operation; Release has no checked failure.
C8_SecondDestructureFails ==
  /\ (last.op = "DestructureTuple" /\ last.repeat) =>
       /\ last.outcome \in {"InvalidArgument", "bad_optional_access"}
       /\ bufs[last.buf] = last.pre
       /\ ChildrenOfLast = {}
  /\ last.op = "ToPython" => bufs[last.buf] = last.pre

\* C8 witness: a tuple buffer was destructured and DestructureTuple was
\* invoked on it again.
C8_Witness ==
  /\ last.op = "DestructureTuple" /\ last.repeat
  /\ IsTuple(last.pre.shape) /\ ~last.pre.present
  /\ last.outcome = "bad_optional_access"

\* C9 (as claimed): after DestructureTuple the children together own exactly
\* the regions the parent owned, the region at the root index included.
C9_ChildrenOwnAllRegions ==
  LastDestructured =>
    UNION {Owned(x) : x \in ChildrenOfLast} = RegionsOf(last.pre.mem)

\* C9 (amended): the children together own exactly the parent's regions at
\* the indices below the root, each region in exactly one child and still
\* allocated; the parent owns nothing; the region at the root index (the
\* tuple's index table) goes to no child and is deallocated with the released
\* parent buffer. No region is ever owned by two buffers and none leaks.
C9_ChildrenPartitionElements ==
  /\ LastDestructured =>
       /\ UNION {Owned(x) : x \in ChildrenOfLast}
            = RegionsOf(last.pre.mem) \ {last.pre.mem[<<>>]}
       /\ Cardinality(ChildrenOfLast) = TupleElementCount(last.pre.shape)
       /\ \A x \in ChildrenOfLast :
            /\ bufs[x].present
            /\ bufs[x].shape = GetSubshape(last.pre.shape, x[Len(x)])
            /\ \A idx \in Indices(bufs[x].shape) :
                 bufs[x].mem[idx] = last.pre.mem[<<x[Len(x)]>> \o idx]
       /\ Owned(last.buf) = {}
       /\ last.pre.mem[<<>>] \notin allocated
  /\ \A x \in DOMAIN bufs, y \in DOMAIN bufs :
       x # y => Owned(x) \cap Owned(y) = {}
  /\ allocated = UNION {Owned(x) : x \in DOMAIN bufs} \cup handed_out

\* C9 witness: a tuple of two elements, one of them a tuple of two arrays,
\* has been destructured.
C9_Witness ==
  /\ LastDestructured
  /\ TupleElementCount(last.pre.shape) >= 2
  /\ \E x \in ChildrenOfLast : Cardinality(Owned(x)) = 3

\* C10: DestructureTuple on an intact buffer whose shape is no tuple returns
\* InvalidArgument and changes nothing: the buffer still owns all its device
\* memory, and ToPython and Release on it afterwards find it intact.
C10_NonTupleRejectedIntact ==
  /\ (last.op = "DestructureTuple" /\ last.pre.present
      /\ ~IsTuple(last.pre.shape)) =>
       /\ last.outcome = "InvalidArgument"
       /\ bufs[last.buf] = last.pre
       /\ ChildrenOfLast = {}
  /\ \A b \in DOMAIN bufs :
       (~IsTuple(bufs[b].shape) /\ "DestructureTuple" \in called[b]
        /\ "Release" \notin called[b]) =>
         /\ bufs[b].present
         /\ Null \notin {bufs[b].mem[idx] : idx \in Indices(bufs[b].shape)}
         /\ Owned(b) \subseteq allocated
  /\ (/\ last.op \in {"ToPython", "Release"}
      /\ ~IsTuple(last.pre.shape)
      /\ "DestructureTuple" \in called[last.buf]
      /\ (last.op = "Release" => ~last.repeat)
      /\ (last.op = "ToPython" => "Release" \notin called[last.buf])) =>
       last.outcome \in {"ok", "TransferError"}

\* C10 witness: an array buffer was converted to a host value after
\* DestructureTuple had been rejected on it.
C10_Witness ==
  /\ last.op = "ToPython" /\ last.outcome = "ok"
  /\ ~IsTuple(bufs[last.buf].shape)
  /\ "DestructureTuple" \in called[last.buf]

\* A step that deallocates the buffer of pair i happens with no write in
\* flight on the stream of any other pair.
C6_Step ==
  \A i \in DOMAIN mem \cap DOMAIN mem' :
    (mem[i] = "allocated" /\ mem'[i] = "freed") =>
      \A j \in DOMAIN pending \ {i} : pending[j] = 0

\* C6 (as claimed): no buffer of a batch is deallocated while the transfer
\* of another pair of the batch still has writes in flight on its stream,
\* also when a pair's transfer fails part-way.
C6_NoFreeDuringOtherWrites == [][C6_Step]_vars

\* C7 (as claimed): when layout resolution fails for a tree of the batch, the
\* call fails with no device memory allocated and no transfer started for
\* any tree.
C7_LayoutFailureStartsNothing ==
  (mpc = "returned" /\ \E i \in DOMAIN tbuffer : tbuffer[i] = "layout") =>
    /\ xret.kind = "error"
    /\ \A j \in DOMAIN mem : mem[j] = "none" /\ enq[j] = 0

\* C7 (amended): what fails the batch before anything is started is a failed
\* GetPythonBufferTree or BorrowStream: then no transfer was started and no
\* memory allocated for any tree. The layout is resolved inside each pair's
\* own transfer: a tree whose layout resolution fails has no memory
\* allocated and no write enqueued itself, and the call fails, but the other
\* trees may have been allocated and written.
C7_PreparationFailureStartsNothing ==
  /\ (mpc = "returned" /\ xret.stage \in {"tree", "stream"}) =>
       /\ xret.kind = "error"
       /\ \A j \in DOMAIN mem :
            mem[j] = "none" /\ enq[j] = 0 /\ tpc[j] = "none"
  /\ \A i \in DOMAIN tbuffer :
       tbuffer[i] = "layout" =>
         /\ mem[i] = "none" /\ enq[i] = 0 /\ pending[i] = 0
         /\ mpc = "returned" => xret.kind = "error"

\* C7 witness: the call failed with the layout of tree 1 unresolved, after
\* tree 0 had been allocated and written.
C7_Witness ==
  /\ mpc = "returned" /\ xret.kind = "error"
  /\ Cardinality(DOMAIN tbuffer) >= 2
  /\ tbuffer[1] = "layout"
  /\ mem[0] = "freed" /\ enq[0] > 0

\* C11 (as claimed): ToPython on a buffer already consumed by Release or
\* DestructureTuple comes back to the caller as an error result (a non-OK
\* StatusOr): no host value, no read of device memory, no exception/abort.
C11_ConsumedToPythonReturnsError ==
  (last.op = "ToPython" /\ ~last.pre.present) =>
    /\ last.outcome \in {"InvalidArgument", "TransferError"}
    /\ bufs[last.buf] = last.pre

\* The executions in flight that belong to caller c's call.
InFlightOf(c) == {x \in InFlight : x.caller = c}

\* What C12 says of a state: an Execute on an executable with other than one
\* replica has returned InvalidArgument with nothing run; on one replica the
\* program runs on the caller's own thread, on the device of replica 0, never
\* on a worker thread, and the call returns one buffer (the run's result) or
\* the run's failure as it is.
C12_State ==
  \A c \in callers : call[c].op = "Execute" =>
    /\ ClosuresOf(c) = {}
    /\ pc[c] \in {"run_sync", "returned"}
    /\ call[c].n # 1 =>
         /\ pc[c] = "returned" /\ ret[c].kind = "InvalidArgument"
         /\ started[c] = {} /\ results[c] = <<>> /\ InFlightOf(c) = {}
    /\ (call[c].n = 1 /\ pc[c] = "run_sync") =>
         /\ InFlightOf(c) = {[caller |-> c, replica |-> 0,
                              device |-> call[c].assign[1], thread |-> -1]}
         /\ ret[c] = NoRet
    /\ (call[c].n = 1 /\ pc[c] = "returned") =>
         /\ started[c] = {0} /\ InFlightOf(c) = {}
         /\ results[c][0] \in {RunOk(0), RunFailed(0)}
         /\ IF results[c][0].ok
              THEN /\ ret[c].kind = "ok"
                   /\ ret[c].buffers = <<results[c][0].buf>>
              ELSE /\ ret[c].kind = "error"
                   /\ ret[c].err = results[c][0].err
                   /\ ret[c].note = -1
                   /\ ret[c].buffers = <<>>

\* What C12 says of a step: the run of an Execute starts when the call is
\* made and ends with the call's return, so the program runs once per call.
C12_Step ==
  \A c \in callers :
    /\ (call'[c].op = "Execute" /\ pc'[c] = "run_sync" /\ pc[c] # "run_sync")
         => pc[c] = "idle"
    /\ (call[c].op = "Execute" /\ pc[c] = "run_sync" /\ pc'[c] # "run_sync")
         => pc'[c] = "returned" /\ call'[c] = call[c]
    /\ (call[c].op = "Execute" /\ pc[c] = "returned" /\ pc'[c] # "returned")
         => pc'[c] = "idle"

\* C12: Execute on an executable whose replica count is not 1 fails with
\* InvalidArgument without running the program; on a one-replica executable
\* it runs the program once, synchronously on the calling thread, on the
\* device assigned to replica 0, and returns one buffer or the run's failure.
C12_ExecuteOneReplicaOnly == [] C12_State /\ [][C12_Step]_vars

\* C12 witness: an Execute on a one-replica executable has returned the
\* failure of its run.
C12_Witness ==
  \E c \in callers :
    /\ call[c].op = "Execute" /\ call[c].n = 1 /\ pc[c] = "returned"
    /\ ret[c].kind = "error" /\ ret[c].err = 0

\* A call on a one-replica executable, with that replica's arguments.
OneReplicaCall(c) ==
  /\ call[c].n = 1
  /\ call[c].op = "ExecutePerReplica" => call[c].argLen = 1

\* C13 (as claimed): on a one-replica executable, what a call returned is
\* what Execute returns and what ExecutePerReplica returns for the same run
\* of the program: the same buffer on success, the same error on failure.
C13_IdenticalOutcomes ==
  \A c \in callers :
    (pc[c] = "returned" /\ OneReplicaCall(c)) =>
      /\ ret[c] = ExecuteReturn(results[c][0])
      /\ ret[c] = WrapResults(results[c], 1)

\* C13 (amended): for the same run of the program, Execute and
\* ExecutePerReplica return the same buffer on success and, on failure, the
\* same underlying error; ExecutePerReplica's error is annotated with
\* "while running replica 0", Execute's is the run's status as it is.
C13_SameUpToAnnotation ==
  \A c \in callers :
    (pc[c] = "returned" /\ OneReplicaCall(c)) =>
      LET e == ExecuteReturn(results[c][0])
          p == WrapResults(results[c], 1)
      IN /\ ret[c].kind = e.kind /\ ret[c].kind = p.kind
         /\ ret[c].buffers = e.buffers /\ ret[c].buffers = p.buffers
         /\ ret[c].err = e.err /\ ret[c].err = p.err
         /\ ret[c].kind = "ok" => ret[c] = e /\ ret[c] = p
         /\ ret[c].kind = "error" =>
              /\ ret[c].err = results[c][0].err
              /\ e.note = -1 /\ p.note = 0
              /\ ret[c].note = IF call[c].op = "Execute" THEN -1 ELSE 0

\* C13 witness: an ExecutePerReplica on a one-replica executable has returned
\* the failure of its run.
C13_Witness ==
  \E c \in callers :
    /\ pc[c] = "returned" /\ OneReplicaCall(c)
    /\ call[c].op = "ExecutePerReplica"
    /\ ret[c].kind = "error" /\ ret[c].note = 0

\* C14: on success the i-th buffer of a batch transfer is the one built from
\* the i-th (tree, device ordinal) pair: it has that tree's shape, lives on
\* that device and holds that tree's leaves; and the r-th buffer returned by
\* ExecutePerReplica is the result of replica r; every slot written so far
\* holds the outcome of its own replica, whatever the order of completion.
C14_ResultsInInputOrder ==
  /\ (mpc = "returned" /\ xret.kind = "ok") =>
       /\ Len(xret.buffers) = Cardinality(DOMAIN args)
       /\ \A i \in DOMAIN args :
            /\ xret.buffers[i + 1].shape = args[i].shape
            /\ xret.buffers[i + 1].device = args[i].device
            /\ \A k \in 1..LeafCount(args[i].shape) :
                 xret.buffers[i + 1].data[GetLeafShapes(args[i].shape)[k]]
                   = <<i, k - 1>>
  /\ \A c \in callers :
       /\ (call[c].op = "ExecutePerReplica" /\ results[c] # <<>>) =>
            \A r \in DOMAIN results[c] :
              results[c][r] \in {Unset, RunOk(r), RunFailed(r)}
       /\ (/\ pc[c] = "returned" /\ call[c].op = "ExecutePerReplica"
           /\ ret[c].kind = "ok") =>
            /\ Len(ret[c].buffers) = call[c].n
            /\ \A r \in 0..(call[c].n - 1) : ret[c].buffers[r + 1] = r

\* C14 witness: a batch of an array for one device and a tuple for another
\* has been transferred and its two buffers returned.
C14_Witness ==
  /\ mpc = "returned" /\ xret.kind = "ok" /\ Len(xret.buffers) = 2
  /\ args[0].shape # args[1].shape /\ args[0].device # args[1].device

\* A multi-replica call of c is between its setup and its wrapping loop.
Dispatching(c) ==
  MultiReplicaCall(c) /\ pc[c] \in {"schedule", "await", "locked", "await_timeout"}

\* The worker threads executing a closure of c's call.
WorkersOf(c) == {t \in ThreadIds : cur[t].caller = c}

\* C15 (as claimed): during a multi-replica ExecutePerReplica, running, failed
\* and first_failure_status are the only state of the call that its worker
\* threads write, and each such write is made by a thread holding mu.
C15_Step ==
  \A c \in callers : Dispatching(c) =>
    /\ results'[c] = results[c]
    /\ (\/ running'[c] # running[c] \/ failed'[c] # failed[c]
        \/ first_failure_status'[c] # first_failure_status[c]) =>
         mu[c] \in WorkersOf(c)

\* C15 (as claimed), over every step.
C15_OnlyCountersShared == [][C15_Step]_vars

\* What C15 (amended) says of a state: a thread about to read or write the
\* counters or the first-failure slot holds mu (a worker inside its locked
\* section, the caller between Await and the end of the block), a thread
\* elsewhere does not, and the caller reads the result slots without mu.
C15_LockState ==
  \A c \in callers :
    /\ \A t \in ThreadIds :
         (cur[t].caller = c /\ cur[t].phase = "locked") <=> mu[c] = t
    /\ pc[c] = "locked" <=> mu[c] = CallerThread
    /\ pc[c] = "wrap" => mu[c] = MuFree

\* What C15 (amended) says of a step: the counters and the first-failure
\* slot change only in a step of a worker that holds mu; a result slot is
\* shared too, and changes only in a step of the worker of that replica,
\* which does not hold mu.
C15_LockStep ==
  \A c \in callers : (Dispatching(c) /\ pc'[c] # "idle") =>
    /\ (\/ running'[c] # running[c] \/ failed'[c] # failed[c]
        \/ first_failure_status'[c] # first_failure_status[c]) =>
         /\ mu[c] \in WorkersOf(c)
         /\ cur[mu[c]].phase = "locked"
         /\ mu'[c] = MuFree
    /\ results'[c] # results[c] =>
         \E t \in WorkersOf(c) :
           /\ cur[t].phase = "run" /\ cur'[t].phase = "wrote"
           /\ mu[c] # t /\ mu'[c] = mu[c]
           /\ \A r \in DOMAIN results[c] :
                r # cur[t].replica => results'[c][r] = results[c][r]

\* C15 (amended): running, failed and first_failure_status are read and
\* written only by a thread that holds mu; they are not the only shared
\* mutable state: each slot of 'results' is written by its replica's worker
\* and read by the caller, both without holding mu.
C15_CountersUnderLock == [] C15_LockState /\ [][C15_LockStep]_vars

\* C15 witness: a worker holds mu inside its locked section while another
\* worker of the same call has written its result slot and waits for mu.
C15_Witness ==
  \E c \in callers : \E t \in WorkersOf(c), u \in WorkersOf(c) :
    /\ Dispatching(c) /\ mu[c] = t /\ cur[t].phase = "locked"
    /\ cur[u].phase = "wrote" /\ results[c][cur[u].replica] # Unset

\* The services that reported an error to the last Compile.
LayoutErrorReported ==
  \E i \in 1..Len(compile_ret.statuses) : compile_ret.statuses[i] # "ok"

\* C16 (as claimed): Compile fails whenever the layout service, the compiler
\* or the placement service reports an error to it: a Compile that returned
\* an executable was reported no error by any of them.
C16_ServiceErrorFailsCompile ==
  /\ compile_ret.kind = "ok" =>
       /\ ~LayoutErrorReported
       /\ compile_call.compiler_ok /\ compile_call.placer_ok
       /\ compile_call.result_layout.kind = "absent" =>
            compile_call.program_shape_ok
  /\ LayoutErrorReported => compile_ret.kind = "error"

\* C17: a tree whose leaf count equals the number of array leaves of its
\* shape, transferred to a device and converted back with ToPython, gives a
\* host value equal to the tree: the same shape and, leaf by leaf in
\* depth-first order, the same values; and the k-th leaf is the content of
\* the device region of the k-th array leaf of the shape.
C17_RoundTrip ==
  \A k \in DOMAIN host :
    (host[k].kind = "ok" /\ Len(args[k].leaves) = LeafCount(args[k].shape)) =>
      /\ host[k].shape = args[k].shape
      /\ host[k].leaves = args[k].leaves
      /\ pending[k] = 0
      /\ \A j \in 1..Len(args[k].leaves) :
           xret.buffers[k + 1].data[GetLeafShapes(args[k].shape)[j]]
             = args[k].leaves[j]

\* C17 witness: a tuple of two arrays, transferred as the second pair of a
\* batch, has been converted back.
C17_Witness ==
  /\ 1 \in DOMAIN host /\ host[1].kind = "ok"
  /\ IsTuple(args[1].shape) /\ Len(host[1].leaves) = 2

\* C18: when two callers invoke ExecutePerReplica concurrently through one
\* client and every replica program finishes once all replicas of its own
\* call have started running, each call that has dispatched its replicas
\* eventually returns (or a failure's timeout ends the process), whatever
\* the interleaving of the two callers' scheduling.
C18_BothCallsReturn ==
  \A c \in {"A", "B"} :
    (pc[c] = "await") ~> (pc[c] = "returned" \/ terminated)

\* C19: the process-terminating timeout of ExecutePerReplica is armed only
\* after a replica has reported failure. The bounded wait and the
\* termination happen only with failed > 0, which means a replica's result
\* is an error; a call no replica of which has failed is past its wait only
\* with running = 0; and while no replica has reported failure and some
\* replica has not finished, no step takes the caller out of its wait or
\* terminates the process.
C19_State ==
  \A c \in callers :
    /\ failed[c] > 0 =>
         \E r \in DOMAIN results[c] :
           results[c][r] # Unset /\ ~results[c][r].ok
    /\ (TimeoutArmed(c) \/ pc[c] = "fatal") => failed[c] > 0
    /\ terminated => \E d \in callers : pc[d] = "fatal"
    /\ (MultiReplicaCall(c) /\ pc[c] \in {"wrap", "returned"}
          /\ failed[c] = 0) => running[c] = 0

C19_Step ==
  /\ \A c \in callers :
       (pc[c] = "await" /\ failed[c] = 0 /\ running[c] > 0
          /\ failed'[c] = 0 /\ running'[c] > 0)
         => pc'[c] = "await"
  /\ (terminated' /\ ~terminated) =>
       \E c \in callers :
         TimeoutArmed(c) /\ failed[c] > 0 /\ pc'[c] = "fatal"

C19_TimeoutOnlyAfterFailure == [] C19_State /\ [][C19_Step]_vars

\* C19 witness: a call on three replicas, none of which failed, has returned
\* from its wait with running = 0.
C19_Witness ==
  \E c \in callers :
    /\ call[c].op = "ExecutePerReplica" /\ call[c].n = 3
    /\ pc[c] = "wrap" /\ failed[c] = 0 /\ running[c] = 0
    /\ \A r \in DOMAIN results[c] : results[c][r].ok

\* The result slots of caller c's call that have been assigned.
Written(c) == {r \in DOMAIN results[c] : results[c][r] # Unset}

\* C20: in a multi-replica ExecutePerReplica each result slot results[r] is
\* written exactly once, only by the worker closure of replica r and before
\* that closure decrements running under the lock; the calling thread reads
\* the slots (the wrapping loop) only after it has seen running = 0 under the
\* lock, when every slot is written and no closure of the call is left.
C20_State ==
  \A c \in callers :
    MultiReplicaCall(c) =>
      /\ running[c] >= 0
      /\ pc[c] = "wrap" =>
           /\ running[c] = 0
           /\ Written(c) = 0..(call[c].n - 1)
           /\ ClosuresOf(c) = {}
      /\ \A t \in ThreadIds :
           (cur[t].caller = c /\ cur[t].phase = "run")
             => cur[t].replica \notin Written(c)

C20_Step ==
  \A c \in callers :
    (MultiReplicaCall(c) /\ call'[c] = call[c]
       /\ pc[c] \notin {"idle", "returned"}) =>
      /\ \A r \in DOMAIN results[c] :
           results'[c][r] # results[c][r] =>
             /\ results[c][r] = Unset
             /\ cur[ThreadOf(r)] = [caller |-> c, replica |-> r,
                                    phase |-> "run"]
             /\ cur'[ThreadOf(r)].phase = "wrote"
             /\ running'[c] = running[c]
             /\ pc[c] \in {"schedule", "await", "await_timeout"}
             /\ \A q \in DOMAIN results[c] \ {r} :
                  results'[c][q] = results[c][q]
      /\ running'[c] # running[c] =>
           /\ running'[c] = running[c] - 1
           /\ \E t \in ThreadIds :
                /\ cur[t].caller = c /\ cur[t].phase = "wrote"
                /\ cur[t].replica \in Written(c)
                /\ cur'[t] = None
           /\ results'[c] = results[c]

C20_SlotsWrittenOnceBeforeRead == [] C20_State /\ [][C20_Step]_vars

\* C20 witness: a worker thread has written the slot of its replica and has
\* not yet decremented running, while the caller waits.
C20_Witness ==
  \E c \in callers : \E t \in ThreadIds :
    /\ MultiReplicaCall(c) /\ pc[c] = "await"
    /\ cur[t].caller = c /\ cur[t].phase = "wrote"
    /\ cur[t].replica \in Written(c)
    /\ running[c] = call[c].n

\* C21: Execute and ExecutePerReplica do not consume their argument
\* buffers. From the moment the call is made until the caller has its
\* answer, every argument buffer that was intact when the call was made is
\* as it was then, holding the same device memory, none of it freed or handed
\* out; this holds when the call is rejected, when an execution fails and
\* when all succeed.
C21_ArgumentsIntact ==
  \A c \in callers :
    call[c].op # "none" =>
      \A b \in DOMAIN call[c].pre :
        call[c].pre[b].present =>
          /\ b \in DOMAIN bufs
          /\ bufs[b] = call[c].pre[b]
          /\ RegionsOf(bufs[b].mem) \subseteq allocated \ handed_out

\* C21 witness: an ExecutePerReplica on two replicas, both given the same
\* intact tuple buffer, has returned an error after its replicas ran.
C21_Witness ==
  \E c \in callers :
    /\ pc[c] = "returned" /\ MultiReplicaCall(c)
    /\ ret[c].kind = "error"
    /\ \A i \in 1..2 : Len(call[c].handles[i]) = 1
    /\ \A b \in DOMAIN call[c].pre :
         call[c].pre[b].present /\ IsTuple(call[c].pre[b].shape)

====
